---- MODULE Spec2Model ----
(***************************************************************************)
(* Model of src/Processors/Transforms/SplittingByHashTransform.cpp:        *)
(*   - SplittingByHashTransform (constructor, transform) and the static    *)
(*     helpers calculateWeakHash32, fillSelector, splitChunk;              *)
(*   - ResizeByHashTransform (constructor, prepare, prepareConsume,        *)
(*     prepareGenerate, work) driven by a scheduler, one input port and    *)
(*     num_outputs output ports.                                           *)
(* Vectors are functions on 0..size-1 so that indices are the source's.    *)
(***************************************************************************)
EXTENDS Integers, Sequences, FiniteSets, TLC

VARIABLES
    num_outputs,            \* outputs.size() / SplittingByHashTransform::num_outputs
    outputs,                \* state of every output port: "busy", "ready", "finished"
    input,                  \* state of the input port of ResizeByHashTransform
    is_generating_phase,    \* ResizeByHashTransform::is_generating_phase
    input_chunk,            \* ResizeByHashTransform::input_chunk (the pulled envelope)
    output_chunks,          \* ResizeByHashTransform::output_chunks
    was_output_processed,   \* ResizeByHashTransform::was_output_processed
    status,                 \* what the last prepare() returned
    pc,                     \* scheduler: "prepare", "work" (after Ready), "failed" (work() threw)
    delivered,              \* history: per output, the sub-batches pushed to it, in order
    unpacked,               \* history: the sub-batches of the current envelope as work() unpacked them
    pulled,                 \* history: number of envelopes pulled from the input
    finished_again,         \* history: prepare() was called after it had returned Finished
    produced,               \* environment: number of envelopes the upstream has pushed
    header_columns,         \* header.columns() of SplittingByHashTransform's constructor
    key_columns,            \* SplittingByHashTransform::key_columns
    hash,                   \* SplittingByHashTransform::hash (WeakHash32: one UInt32 per row)
    selector,               \* SplittingByHashTransform::selector (IColumn::Selector: UInt64 per row)
    split_input_chunk,      \* transform()'s input_chunk
    split_output_chunk      \* transform()'s output_chunk (the carrier and its ChunkInfo)

(* The variables of the ports, of ResizeByHashTransform, of its history, and *)
(* of SplittingByHashTransform.                                            *)
portVars == <<outputs, input>>
resizeVars == <<is_generating_phase, input_chunk, output_chunks, was_output_processed>>
historyVars == <<delivered, unpacked, pulled, finished_again>>
splitVars == <<header_columns, key_columns, hash, selector, split_input_chunk,
               split_output_chunk>>

vars == <<num_outputs, portVars, resizeVars, status, pc, historyVars, produced, splitVars>>

----------------------------------------------------------------------------
(* Bounds of the model. *)
MaxOutputs == 2
MaxEnvelopes == 2
MaxFairEnvelopes == 1
MaxCallEnvelopes == 1
MaxWiredEnvelopes == 2
MaxWiredRows == 1
MaxBuckets == 3
MaxColumns == 2
MaxRows == 2
SampleRows == 2

(* The least number of outputs both constructors accept (num_outputs <= 1 throws). *)
MinOutputs == 2

----------------------------------------------------------------------------
(* Vectors indexed from 0, as in the source. *)
Indices(n) == 0 .. (n - 1)
Size(v) == Cardinality(DOMAIN v)
EmptyVector == [i \in {} |-> 0]

(* A Chunk of the fan-out stage: only its row count matters to the stage;  *)
(* env and idx say which envelope and which sub-batch the rows came from.  *)
NoChunk == [env |-> 0, idx |-> 0, rows |-> 0]

(* The row counts of the sub-batches the upstream sends: none or some. *)
RowCounts == {0, 1}

(* Chunk::hasRows *)
hasRows(chunk) == chunk.rows > 0

(* An envelope: a zero-row carrier with a ChunkInfo: none, of another type, *)
(* or a ChunkInfoWithChunks holding `chunks`.                              *)
NoEnvelope == [info |-> "none", chunks |-> EmptyVector]

Envelope(e, k, rows) ==
    [info |-> "chunks",
     chunks |-> [i \in Indices(k) |-> [env |-> e, idx |-> i, rows |-> rows[i]]]]

(* Port *)
OutputIsFinished(outs, i) == outs[i] = "finished"
OutputCanPush(outs, i) == outs[i] = "ready"
InputIsFinished(inp) == inp.closed \/ (inp.finished /\ ~inp.has_data)
InputHasData(inp) == inp.has_data /\ ~inp.closed

----------------------------------------------------------------------------
(* ResizeByHashTransform: the fields prepare() reads and writes, as a record. *)
Stage ==
    [outputs |-> outputs, input |-> input, input_chunk |-> input_chunk,
     is_generating_phase |-> is_generating_phase, output_chunks |-> output_chunks,
     was_output_processed |-> was_output_processed, delivered |-> delivered,
     pulled |-> pulled, status |-> status]

(* OutputPort::finish on every output (lines 159-160). *)
FinishAll(outs) == [i \in DOMAIN outs |-> "finished"]

(* InputPort::pull(input_chunk), lines 169-173: the envelope leaves the port. *)
PullEnvelope(s) ==
    [s EXCEPT !.input_chunk = s.input.data,
              !.input = [s.input EXCEPT !.has_data = FALSE, !.data = NoEnvelope, !.needed = TRUE],
              !.is_generating_phase = TRUE,
              !.pulled = s.pulled + 1,
              !.status = "Ready"]

(* The mutant of prepareConsume leaves out the check of lines 157-163. *)
prepareConsumeNoExhaustedCheck(s) ==
    IF \E i \in DOMAIN s.outputs : ~OutputIsFinished(s.outputs, i) /\ ~OutputCanPush(s.outputs, i)
    THEN [s EXCEPT !.status = "PortFull"]
    ELSE IF \A i \in DOMAIN s.outputs : OutputIsFinished(s.outputs, i)
    THEN [s EXCEPT !.input = [s.input EXCEPT !.closed = TRUE], !.status = "Finished"]
    ELSE IF ~InputHasData(s.input)
    THEN [s EXCEPT !.input = [s.input EXCEPT !.needed = TRUE], !.status = "NeedData"]
    ELSE PullEnvelope(s)

(* The mutant of prepareConsume leaves out the loop of lines 159-160. *)
prepareConsumeNoFinishOutputs(s) ==
    IF \E i \in DOMAIN s.outputs : ~OutputIsFinished(s.outputs, i) /\ ~OutputCanPush(s.outputs, i)
    THEN [s EXCEPT !.status = "PortFull"]
    ELSE IF \A i \in DOMAIN s.outputs : OutputIsFinished(s.outputs, i)
    THEN [s EXCEPT !.input = [s.input EXCEPT !.closed = TRUE], !.status = "Finished"]
    ELSE IF InputIsFinished(s.input)
    THEN [s EXCEPT !.status = "Finished"]
    ELSE IF ~InputHasData(s.input)
    THEN [s EXCEPT !.input = [s.input EXCEPT !.needed = TRUE], !.status = "NeedData"]
    ELSE PullEnvelope(s)

(* The mutant of prepareConsume leaves out the check of lines 145-146. *)
prepareConsumeNoCanPushCheck(s) ==
    IF \A i \in DOMAIN s.outputs : OutputIsFinished(s.outputs, i)
    THEN [s EXCEPT !.input = [s.input EXCEPT !.closed = TRUE], !.status = "Finished"]
    ELSE IF InputIsFinished(s.input)
    THEN [s EXCEPT !.outputs = FinishAll(s.outputs), !.status = "Finished"]
    ELSE IF ~InputHasData(s.input)
    THEN [s EXCEPT !.input = [s.input EXCEPT !.needed = TRUE], !.status = "NeedData"]
    ELSE PullEnvelope(s)

(* The mutant of prepareConsume returns PortFull only when no output that is *)
(* not finished can accept a push.                                         *)
prepareConsumeAllBlocked(s) ==
    IF /\ \E i \in DOMAIN s.outputs : ~OutputIsFinished(s.outputs, i)
       /\ \A i \in DOMAIN s.outputs :
              ~OutputIsFinished(s.outputs, i) => ~OutputCanPush(s.outputs, i)
    THEN [s EXCEPT !.status = "PortFull"]
    ELSE IF \A i \in DOMAIN s.outputs : OutputIsFinished(s.outputs, i)
    THEN [s EXCEPT !.input = [s.input EXCEPT !.closed = TRUE], !.status = "Finished"]
    ELSE IF InputIsFinished(s.input)
    THEN [s EXCEPT !.outputs = FinishAll(s.outputs), !.status = "Finished"]
    ELSE IF ~InputHasData(s.input)
    THEN [s EXCEPT !.input = [s.input EXCEPT !.needed = TRUE], !.status = "NeedData"]
    ELSE PullEnvelope(s)

(* ResizeByHashTransform::prepareConsume, lines 131-174. *)
prepareConsume(s) ==
    IF \E i \in DOMAIN s.outputs : ~OutputIsFinished(s.outputs, i) /\ ~OutputCanPush(s.outputs, i)
    THEN [s EXCEPT !.status = "PortFull"]
    ELSE IF \A i \in DOMAIN s.outputs : OutputIsFinished(s.outputs, i)
    THEN [s EXCEPT !.input = [s.input EXCEPT !.closed = TRUE], !.status = "Finished"]
    ELSE IF InputIsFinished(s.input)
    THEN [s EXCEPT !.outputs = FinishAll(s.outputs), !.status = "Finished"]
    ELSE IF ~InputHasData(s.input)
    THEN [s EXCEPT !.input = [s.input EXCEPT !.needed = TRUE], !.status = "NeedData"]
    ELSE PullEnvelope(s)

(* Line 184: output_chunks is indexed with chunk_number before the increment. *)
ChunkIndex(output_index) == output_index

(* Lines 185-187 and 205: was_output_processed is indexed with chunk_number  *)
(* after the increment of line 185.                                        *)
TableIndex(output_index) == output_index + 1

(* Lines 187 and 205 index was_output_processed without a bounds check: an   *)
(* index equal to its size reads whatever follows the vector's storage     *)
(* (oob, either value) and a write to it leaves the vector as it is.       *)
TableRead(table, n, oob) == IF n \in DOMAIN table THEN table[n] ELSE oob
TableSet(table, n) == IF n \in DOMAIN table THEN [table EXCEPT ![n] = TRUE] ELSE table

(* OutputPort::pushRef(chunk), line 204: the rows move into the port, the   *)
(* port holds data, and the chunk left in output_chunks has no rows.       *)
pushRef(s, i, c) ==
    [s EXCEPT !.outputs = [s.outputs EXCEPT ![i] = "busy"],
              !.delivered = [s.delivered EXCEPT ![i] = Append(s.delivered[i], s.output_chunks[c])],
              !.output_chunks = [s.output_chunks EXCEPT ![c] = [@ EXCEPT !.rows = 0]]]

(* The mutant of the loop body leaves out the check of lines 190-191. *)
GenerateStepNoRowsCheck(g, i, oob) ==
    LET s == g.s
        c == ChunkIndex(i)
        n == TableIndex(i)
    IN  IF TableRead(s.was_output_processed, n, oob) THEN g
        ELSE IF OutputIsFinished(s.outputs, i) THEN g
        ELSE IF ~OutputCanPush(s.outputs, i)
             THEN [g EXCEPT !.has_full_ports = TRUE, !.all_outputs_processed = FALSE]
             ELSE [g EXCEPT !.has_full_ports = TRUE,
                            !.s = [pushRef(s, i, c) EXCEPT
                                      !.was_output_processed = TableSet(s.was_output_processed, n)]]

(* The mutant of the loop body leaves out the check of lines 193-194. *)
GenerateStepNoFinishedCheck(g, i, oob) ==
    LET s == g.s
        c == ChunkIndex(i)
        n == TableIndex(i)
    IN  IF TableRead(s.was_output_processed, n, oob) THEN g
        ELSE IF ~hasRows(s.output_chunks[c]) THEN g
        ELSE IF ~OutputCanPush(s.outputs, i)
             THEN [g EXCEPT !.has_full_ports = TRUE, !.all_outputs_processed = FALSE]
             ELSE [g EXCEPT !.has_full_ports = TRUE,
                            !.s = [pushRef(s, i, c) EXCEPT
                                      !.was_output_processed = TableSet(s.was_output_processed, n)]]

(* The mutant of the loop body sets has_full_ports (line 196) before the   *)
(* check of lines 190-191.                                                 *)
GenerateStepFullBeforeRows(g, i, oob) ==
    LET s == g.s
        c == ChunkIndex(i)
        n == TableIndex(i)
    IN  IF TableRead(s.was_output_processed, n, oob) THEN g
        ELSE IF ~hasRows(s.output_chunks[c]) THEN [g EXCEPT !.has_full_ports = TRUE]
        ELSE IF OutputIsFinished(s.outputs, i) THEN g
        ELSE IF ~OutputCanPush(s.outputs, i)
             THEN [g EXCEPT !.has_full_ports = TRUE, !.all_outputs_processed = FALSE]
             ELSE [g EXCEPT !.has_full_ports = TRUE,
                            !.s = [pushRef(s, i, c) EXCEPT
                                      !.was_output_processed = TableSet(s.was_output_processed, n)]]

(* The mutant of the loop body leaves out the check of lines 198-202. *)
GenerateStepNoCanPushCheck(g, i, oob) ==
    LET s == g.s
        c == ChunkIndex(i)
        n == TableIndex(i)
    IN  IF TableRead(s.was_output_processed, n, oob) THEN g
        ELSE IF ~hasRows(s.output_chunks[c]) THEN g
        ELSE IF OutputIsFinished(s.outputs, i) THEN g
        ELSE [g EXCEPT !.has_full_ports = TRUE,
                       !.s = [pushRef(s, i, c) EXCEPT
                                 !.was_output_processed = TableSet(s.was_output_processed, n)]]

(* One iteration of the loop of prepareGenerate, lines 182-206, for output i. *)
(* g = [s, has_full_ports, all_outputs_processed].                         *)
GenerateStep(g, i, oob) ==
    LET s == g.s
        c == ChunkIndex(i)
        n == TableIndex(i)
    IN  IF TableRead(s.was_output_processed, n, oob) THEN g
        ELSE IF ~hasRows(s.output_chunks[c]) THEN g
        ELSE IF OutputIsFinished(s.outputs, i) THEN g
        ELSE IF ~OutputCanPush(s.outputs, i)
             THEN [g EXCEPT !.has_full_ports = TRUE, !.all_outputs_processed = FALSE]
             ELSE [g EXCEPT !.has_full_ports = TRUE,
                            !.s = [pushRef(s, i, c) EXCEPT
                                      !.was_output_processed = TableSet(s.was_output_processed, n)]]

RECURSIVE GenerateLoop(_, _, _)
GenerateLoop(g, i, oob) ==
    IF i >= Size(g.s.outputs) THEN g
    ELSE GenerateLoop(GenerateStep(g, i, oob), i + 1, oob)

(* The mutant of prepareGenerate leaves out lines 208-209. *)
prepareGenerateKeepsPhase(s, oob) ==
    LET g == GenerateLoop([s |-> s, has_full_ports |-> FALSE, all_outputs_processed |-> TRUE], 0, oob)
    IN  IF g.has_full_ports
        THEN [g.s EXCEPT !.status = "PortFull"]
        ELSE prepareConsume(g.s)

(* The mutant of prepareGenerate returns PortFull instead of line 216. *)
prepareGenerateNoFallThrough(s, oob) ==
    LET g == GenerateLoop([s |-> s, has_full_ports |-> FALSE, all_outputs_processed |-> TRUE], 0, oob)
        t == IF g.all_outputs_processed
             THEN [g.s EXCEPT !.is_generating_phase = FALSE]
             ELSE g.s
    IN  [t EXCEPT !.status = "PortFull"]

(* ResizeByHashTransform::prepareGenerate, lines 176-217. *)
prepareGenerate(s, oob) ==
    LET g == GenerateLoop([s |-> s, has_full_ports |-> FALSE, all_outputs_processed |-> TRUE], 0, oob)
        t == IF g.all_outputs_processed
             THEN [g.s EXCEPT !.is_generating_phase = FALSE]
             ELSE g.s
    IN  IF g.has_full_ports
        THEN [t EXCEPT !.status = "PortFull"]
        ELSE prepareConsume(t)

(* ResizeByHashTransform::prepare, lines 123-129. *)
prepare(s, oob) ==
    IF s.is_generating_phase
    THEN prepareGenerate(s, oob)
    ELSE prepareConsume(s)

(* The mutant of work leaves out the check of lines 226-228. *)
workNoSizeCheck(n, chunk, chunks) ==
    IF chunk.info # "chunks"
    THEN [threw |-> TRUE, input_chunk |-> chunk, output_chunks |-> chunks,
          reset |-> FALSE]
    ELSE [threw |-> FALSE,
          input_chunk |-> [chunk EXCEPT !.chunks = chunks],
          output_chunks |-> chunk.chunks,
          reset |-> TRUE]

(* ResizeByHashTransform::work, lines 219-231. The result says whether it threw. *)
work(n, chunk, chunks) ==
    IF chunk.info # "chunks"
    THEN [threw |-> TRUE, input_chunk |-> chunk, output_chunks |-> chunks,
          reset |-> FALSE]
    ELSE [threw |-> Size(chunk.chunks) # n,
          input_chunk |-> [chunk EXCEPT !.chunks = chunks],
          output_chunks |-> chunk.chunks,
          reset |-> Size(chunk.chunks) = n]

----------------------------------------------------------------------------
(* Unsigned machine integers wider than TLC's integers: base-2^16 limbs, most *)
(* significant first. A UInt32 is <<hi, lo>>, a UInt64 is <<l3, l2, l1, l0>>. *)
Word == 2 ^ 16

(* The shift of line 71. *)
ShiftBits == 32

(* static_cast<UInt64>(UInt32), line 69. *)
ToUInt64(h) == <<0, 0, h[1], h[2]>>

(* UInt64 *= n (line 70), modulo 2^64: the carry out of the top limb is lost. *)
MulUInt64(x, n) ==
    LET p0 == x[4] * n
        p1 == x[3] * n + p0 \div Word
        p2 == x[2] * n + p1 \div Word
        p3 == x[1] * n + p2 \div Word
    IN  <<p3 % Word, p2 % Word, p1 % Word, p0 % Word>>

(* UInt64 >>= 32 (line 71): two limbs down. *)
ShiftRight(x, bits) ==
    IF bits = ShiftBits THEN <<0, 0, x[1], x[2]>> ELSE x

(* The value of a UInt64 that fits TLC's integers. *)
ToNat(x) == (x[2] * Word + x[3]) * Word + x[4]

(* Bucket of one hash value, lines 69-71. *)
SelectorOf(h, n) == ToNat(ShiftRight(MulUInt64(ToUInt64(h), n), ShiftBits))

(* The mutant of fillSelector multiplies in 32 bits: the product loses its  *)
(* upper half before the shift.                                            *)
fillSelectorNarrow(hash_data, n) ==
    [row \in DOMAIN hash_data |->
        LET p == MulUInt64(ToUInt64(hash_data[row]), n)
        IN  ToNat(ShiftRight(<<0, 0, p[3], p[4]>>, ShiftBits))]

(* fillSelector, lines 59-73. *)
fillSelector(hash_data, n) ==
    [row \in DOMAIN hash_data |-> SelectorOf(hash_data[row], n)]

(* WeakHash32::reset(num_rows): every entry is ~UInt32(0). *)
WeakHashReset(num_rows) == [row \in Indices(num_rows) |-> <<Word - 1, Word - 1>>]

(* IColumn::updateWeakHash32: folds the row's value into the row's hash. The *)
(* 32-bit mix stands for the column's own: h * 33 + v * 0x3504F333 mod 2^32. *)
WeakHashMix(h, v) ==
    LET lo == h[2] * 33 + v * 62259
        hi == h[1] * 33 + v * 13572 + lo \div Word
    IN  <<hi % Word, lo % Word>>

updateWeakHash32(column, hash_data) ==
    [row \in DOMAIN hash_data |-> WeakHashMix(hash_data[row], column[row])]

(* The loop of calculateWeakHash32, lines 55-56, from key column k on. *)
RECURSIVE HashKeyColumns(_, _, _, _)
HashKeyColumns(columns, keys, k, hash_data) ==
    IF k >= Size(keys) THEN hash_data
    ELSE HashKeyColumns(columns, keys, k + 1, updateWeakHash32(columns[keys[k]], hash_data))

(* The mutant of calculateWeakHash32 hashes every column of the chunk. *)
calculateWeakHash32AllColumns(chunk, keys) ==
    HashKeyColumns(chunk.columns, [k \in DOMAIN chunk.columns |-> k], 0,
                   WeakHashReset(chunk.num_rows))

(* calculateWeakHash32, lines 48-57. *)
calculateWeakHash32(chunk, keys) ==
    HashKeyColumns(chunk.columns, keys, 0, WeakHashReset(chunk.num_rows))

(* std::vector::push_back / emplace_back. *)
PushBack(v, x) == [i \in 0 .. Size(v) |-> IF i < Size(v) THEN v[i] ELSE x]

(* A Chunk of the splitting stage: its columns and its row count. *)
EmptySplitChunk == [num_rows |-> 0, columns |-> EmptyVector]

(* IColumn::scatter(num_columns, selector): column i of the result holds the *)
(* values of the rows whose selector is i, in the order of the rows.       *)
RECURSIVE ScatterFrom(_, _, _, _)
ScatterFrom(column, sel, row, parts) ==
    IF row >= Size(column) THEN parts
    ELSE ScatterFrom(column, sel, row + 1,
                     [parts EXCEPT ![sel[row]] = PushBack(@, column[row])])

scatter(column, n, sel) == ScatterFrom(column, sel, 0, [i \in Indices(n) |-> EmptyVector])

(* Chunks::resize(n), line 78. *)
ResizeChunks(chunks, n) ==
    [i \in Indices(n) |-> IF i \in DOMAIN chunks THEN chunks[i] ELSE EmptySplitChunk]

(* Lines 85-99 (the first column replaces what the chunk held) and lines    *)
(* 101-105 (Chunk::addColumn) for one scattered column.                    *)
PlaceColumn(result_chunks, parts, first) ==
    [i \in DOMAIN result_chunks |->
        IF first
        THEN [num_rows |-> Size(parts[i]), columns |-> PushBack(EmptyVector, parts[i])]
        ELSE [result_chunks[i] EXCEPT !.columns = PushBack(@, parts[i])]]

(* The loop of splitChunk, lines 81-106, from column c on. *)
RECURSIVE SplitColumns(_, _, _, _, _)
SplitColumns(columns, sel, n, c, result_chunks) ==
    IF c >= Size(columns) THEN result_chunks
    ELSE SplitColumns(columns, sel, n, c + 1,
                      PlaceColumn(result_chunks, scatter(columns[c], n, sel), c = 0))

(* The mutant of splitChunk scatters only the first column. *)
splitChunkFirstColumn(chunk, sel, n, result_chunks) ==
    PlaceColumn(ResizeChunks(result_chunks, n), scatter(chunk.columns[0], n, sel), TRUE)

(* The mutant of splitChunk adds every column to what the chunk already held. *)
splitChunkNoClear(chunk, sel, n, result_chunks) ==
    SplitColumns(chunk.columns, sel, n, 1,
                 PlaceColumn(ResizeChunks(result_chunks, n), scatter(chunk.columns[0], n, sel),
                             FALSE))

(* The mutant of splitChunk leaves out the resize of line 78. *)
splitChunkNoResize(chunk, sel, n, result_chunks) ==
    SplitColumns(chunk.columns, sel, n, 0, result_chunks)

(* splitChunk, lines 75-107. *)
splitChunk(chunk, sel, n, result_chunks) ==
    SplitColumns(chunk.columns, sel, n, 0, ResizeChunks(result_chunks, n))

(* SplittingByHashTransform::transform, lines 109-121. out is output_chunk:  *)
(* its ChunkInfo is none, of another type, or a ChunkInfoWithChunks.       *)
transform(chunk, out, keys, n) ==
    LET info == IF out.info = "none" THEN [info |-> "chunks", chunks |-> EmptyVector] ELSE out
    IN  IF info.info # "chunks"
        THEN [threw |-> TRUE, output_chunk |-> info, hash |-> EmptyVector,
              selector |-> EmptyVector]
        ELSE LET h == calculateWeakHash32(chunk, keys)
                 sel == fillSelector(h, n)
             IN  [threw |-> FALSE,
                  output_chunk |-> [info EXCEPT !.chunks = splitChunk(chunk, sel, n, info.chunks)],
                  hash |-> h, selector |-> sel]

(* The mutant of the constructor accepts a key column equal to the column count. *)
ConstructSplittingOffByOne(columns_in_header, n, keys) ==
    IF n <= 1 THEN "expects more than 1 outputs"
    ELSE IF Size(keys) = 0 THEN "empty set of key columns"
    ELSE IF \E k \in DOMAIN keys : keys[k] > columns_in_header THEN "Invalid column number"
    ELSE "constructed"

(* SplittingByHashTransform's constructor, lines 16-38: what it throws. *)
ConstructSplitting(columns_in_header, n, keys) ==
    IF n <= 1 THEN "expects more than 1 outputs"
    ELSE IF Size(keys) = 0 THEN "empty set of key columns"
    ELSE IF \E k \in DOMAIN keys : keys[k] >= columns_in_header THEN "Invalid column number"
    ELSE "constructed"

(* ResizeByHashTransform's constructor, lines 40-46: what it throws. *)
ConstructResize(n) ==
    IF n <= 1 THEN "expects more than 1 outputs" ELSE "constructed"

----------------------------------------------------------------------------
(* The scheduler and the environment of ResizeByHashTransform. *)

(* SplittingByHashTransform is not part of the run. *)
SplitIdle ==
    /\ header_columns = 0
    /\ key_columns = EmptyVector
    /\ hash = EmptyVector
    /\ selector = EmptyVector
    /\ split_input_chunk = EmptySplitChunk
    /\ split_output_chunk = NoEnvelope

InitInput == [has_data |-> FALSE, data |-> NoEnvelope, finished |-> FALSE,
              closed |-> FALSE, needed |-> FALSE]

(* The state after ResizeByHashTransform's constructor, lines 40-46. *)
Init ==
    /\ num_outputs \in MinOutputs .. MaxOutputs
    /\ outputs = [i \in Indices(num_outputs) |-> "busy"]
    /\ input = InitInput
    /\ is_generating_phase = FALSE
    /\ input_chunk = NoEnvelope
    /\ output_chunks = EmptyVector
    /\ was_output_processed = EmptyVector
    /\ status = "None"
    /\ pc = "prepare"
    /\ delivered = [i \in Indices(num_outputs) |-> <<>>]
    /\ unpacked = EmptyVector
    /\ pulled = 0
    /\ finished_again = FALSE
    /\ produced = 0
    /\ SplitIdle

(* The scheduler calls prepare(). *)
Prepare ==
    /\ pc = "prepare"
    /\ \E oob \in BOOLEAN :
         \E t \in {prepare(Stage, oob)} :
             /\ outputs' = t.outputs
             /\ input' = t.input
             /\ input_chunk' = t.input_chunk
             /\ is_generating_phase' = t.is_generating_phase
             /\ output_chunks' = t.output_chunks
             /\ was_output_processed' = t.was_output_processed
             /\ delivered' = t.delivered
             /\ pulled' = t.pulled
             /\ finished_again' = (finished_again \/ status = "Finished")
             /\ status' = t.status
             /\ pc' = IF t.status = "Ready" THEN "work" ELSE "prepare"
    /\ UNCHANGED <<num_outputs, unpacked, produced, splitVars>>

(* The scheduler calls work() after prepare() returned Ready. *)
Work ==
    /\ pc = "work"
    /\ \E r \in {work(num_outputs, input_chunk, output_chunks)} :
           /\ input_chunk' = r.input_chunk
           /\ output_chunks' = r.output_chunks
           /\ was_output_processed' =
                IF r.reset THEN [i \in Indices(Size(r.output_chunks)) |-> FALSE]
                ELSE was_output_processed
           /\ unpacked' = IF r.reset THEN r.output_chunks ELSE unpacked
           /\ pc' = IF r.threw THEN "failed" ELSE "prepare"
    /\ UNCHANGED <<num_outputs, portVars, is_generating_phase, status, delivered, pulled,
                   finished_again, produced, splitVars>>

(* The upstream pushes the envelope of a splitting stage that has as many   *)
(* outputs as this stage: num_outputs sub-batches, each with or without rows. *)
InputProvide ==
    /\ pc # "failed"
    /\ input.needed /\ ~input.has_data /\ ~input.finished /\ ~input.closed
    /\ produced < MaxEnvelopes
    /\ \E rows \in [Indices(num_outputs) -> RowCounts] :
         input' = [input EXCEPT !.has_data = TRUE,
                                !.data = Envelope(produced + 1, num_outputs, rows)]
    /\ produced' = produced + 1
    /\ UNCHANGED <<num_outputs, outputs, resizeVars, status, pc, historyVars, splitVars>>

(* The upstream pushes an envelope this stage cannot unpack: no attachment, *)
(* an attachment of another type, or one with k # num_outputs sub-batches. *)
ForeignEnvelopes(n) ==
    {[info |-> kind, chunks |-> EmptyVector] : kind \in {"none", "other"}}
    \cup {Envelope(0, k, [i \in Indices(k) |-> 1]) : k \in {n - 1, n + 1}}

InputProvideForeign ==
    /\ pc # "failed"
    /\ input.needed /\ ~input.has_data /\ ~input.finished /\ ~input.closed
    /\ produced < MaxEnvelopes
    /\ \E e \in ForeignEnvelopes(num_outputs) :
         input' = [input EXCEPT !.has_data = TRUE, !.data = e]
    /\ produced' = produced + 1
    /\ UNCHANGED <<num_outputs, outputs, resizeVars, status, pc, historyVars, splitVars>>

(* The upstream finishes. *)
InputFinish ==
    /\ pc # "failed"
    /\ ~input.finished /\ ~input.closed
    /\ input' = [input EXCEPT !.finished = TRUE]
    /\ UNCHANGED <<num_outputs, outputs, resizeVars, status, pc, historyVars, produced,
                   splitVars>>

(* The consumer of output i pulls what the port holds, or asks for data. *)
OutputAccept(i) ==
    /\ pc # "failed"
    /\ i \in DOMAIN outputs
    /\ outputs[i] = "busy"
    /\ outputs' = [outputs EXCEPT ![i] = "ready"]
    /\ UNCHANGED <<num_outputs, input, resizeVars, status, pc, historyVars, produced,
                   splitVars>>

(* The consumer of output i withdraws its demand (InputPort::setNotNeeded). *)
OutputStall(i) ==
    /\ pc # "failed"
    /\ outputs[i] = "ready"
    /\ outputs' = [outputs EXCEPT ![i] = "busy"]
    /\ UNCHANGED <<num_outputs, input, resizeVars, status, pc, historyVars, produced,
                   splitVars>>

(* The consumer of output i closes its port. *)
OutputFinish(i) ==
    /\ pc # "failed"
    /\ outputs[i] # "finished"
    /\ outputs' = [outputs EXCEPT ![i] = "finished"]
    /\ UNCHANGED <<num_outputs, input, resizeVars, status, pc, historyVars, produced,
                   splitVars>>

Next ==
    \/ Prepare
    \/ Work
    \/ InputProvide
    \/ InputProvideForeign
    \/ InputFinish
    \/ \E i \in Indices(num_outputs) : OutputAccept(i)
    \/ \E i \in Indices(num_outputs) : OutputStall(i)
    \/ \E i \in Indices(num_outputs) : OutputFinish(i)

Spec == Init /\ [][Next]_vars

(* The same run under a fair scheduler, with consumers that keep their     *)
(* demand once they stated it: prepare() and work() are called again and   *)
(* again, and while some port holds data its consumer eventually takes it. *)
(* The upstream sends at most MaxFairEnvelopes envelopes.                  *)
FairNext ==
    \/ Prepare
    \/ Work
    \/ (produced < MaxFairEnvelopes /\ InputProvide)
    \/ (produced < MaxFairEnvelopes /\ InputProvideForeign)
    \/ InputFinish
    \/ \E i \in Indices(num_outputs) : OutputAccept(i)
    \/ \E i \in Indices(num_outputs) : OutputFinish(i)

FairSpec ==
    /\ Init
    /\ [][FairNext]_vars
    /\ WF_vars(Prepare)
    /\ WF_vars(Work)
    /\ WF_vars(\E i \in Indices(num_outputs) : OutputAccept(i))

----------------------------------------------------------------------------
(* Properties of ResizeByHashTransform. *)

Last(seq) == seq[Len(seq)]

(* Sub-batch i of the envelope work() unpacked last has been pushed to output i. *)
WasDelivered(i) == \E k \in 1 .. Len(delivered[i]) : delivered[i][k] = unpacked[i]

(* Sub-batch i of the current envelope still waits in output_chunks. *)
IsPending(i) == hasRows(output_chunks[i]) /\ ~WasDelivered(i)

Drained ==
    \A i \in DOMAIN unpacked :
        \/ ~hasRows(unpacked[i])
        \/ OutputIsFinished(outputs, i)
        \/ WasDelivered(i)

(* Every output received its sub-batches in the order of the envelopes. *)
DeliveredInOrder ==
    \A i \in DOMAIN delivered :
        \A k \in 1 .. Len(delivered[i]) : \A m \in 1 .. Len(delivered[i]) :
            k < m => delivered[i][k].env < delivered[i][m].env

(* C2. Envelope ordering without loss: the next envelope is pulled only    *)
(* when the current one is fully drained (every sub-batch is empty, or its *)
(* output is finished, or it has been pushed), and every output receives   *)
(* its sub-batches in the order the envelopes were pulled.                 *)
EnvelopeOrderingWithoutLoss ==
    /\ [][pulled' # pulled => Drained]_vars
    /\ []DeliveredInOrder

(* C3. Fan-out completeness under backpressure: a prepare() call in the    *)
(* Generating state delivers to every output that can accept a push the    *)
(* non-empty sub-batch that waits for it, however long it waited, and      *)
(* pushes nothing more to an output that already has its sub-batch.        *)
CompletenessUnderBackpressure ==
    [][(Prepare /\ is_generating_phase) =>
          \A i \in DOMAIN outputs :
              /\ (OutputCanPush(outputs, i) /\ IsPending(i))
                     => delivered'[i] = Append(delivered[i], unpacked[i])
              /\ WasDelivered(i) => delivered'[i] = delivered[i]]_vars

(* C4. Termination: once the input is exhausted and the stage is back in   *)
(* Consuming, prepare() eventually returns Finished, and whenever it has   *)
(* returned Finished every output is finished.                             *)
Termination ==
    /\ (pc = "prepare" /\ ~is_generating_phase /\ InputIsFinished(input))
           ~> (status = "Finished")
    /\ [](status = "Finished" => \A i \in DOMAIN outputs : OutputIsFinished(outputs, i))

(* C4 happens: Finished was returned because the input was exhausted. *)
FinishedOnExhaustedInput ==
    /\ status = "Finished"
    /\ input.finished /\ ~input.closed
    /\ pulled > 0

(* What work() must refuse. *)
Unpackable(envelope, n) == envelope.info = "chunks" /\ Size(envelope.chunks) = n

(* C9. Fatal mismatch: work() throws exactly when the pulled envelope has   *)
(* no attachment, one of another type, or one whose number of sub-batches  *)
(* differs from the number of outputs; otherwise output_chunks are exactly *)
(* the sub-batches of the attachment; nothing of a refused envelope is     *)
(* ever pushed.                                                            *)
FatalMismatch ==
    /\ [][Work => /\ (pc' = "failed") = ~Unpackable(input_chunk, num_outputs)
                  /\ pc' # "failed" => /\ output_chunks' = input_chunk.chunks
                                       /\ was_output_processed'
                                            = [i \in Indices(num_outputs) |-> FALSE]]_vars
    /\ [](\A i \in DOMAIN delivered :
             \A k \in 1 .. Len(delivered[i]) : delivered[i][k].env > 0)

(* C9 happens: work() threw on an attachment with one sub-batch too many. *)
FailedOnChunkCount ==
    /\ pc = "failed"
    /\ Size(output_chunks) = num_outputs + 1

----------------------------------------------------------------------------
(* SplittingByHashTransform::transform on one chunk. *)

(* ResizeByHashTransform is not part of the run. *)
ResizeIdle ==
    /\ outputs = EmptyVector
    /\ input = InitInput
    /\ is_generating_phase = FALSE
    /\ input_chunk = NoEnvelope
    /\ output_chunks = EmptyVector
    /\ was_output_processed = EmptyVector
    /\ status = "None"
    /\ delivered = EmptyVector
    /\ unpacked = EmptyVector
    /\ pulled = 0
    /\ finished_again = FALSE
    /\ produced = 0

(* The values a cell of a column holds. *)
Values == {1, 2}

(* Vectors of the lengths in `lengths` over `elements`. *)
Vectors(lengths, elements) == UNION {[Indices(n) -> elements] : n \in lengths}

(* Chunks of `ncols` columns and at most MaxRows rows. *)
SplitChunks(ncols) ==
    UNION {{[num_rows |-> n, columns |-> cols] :
              cols \in [Indices(ncols) -> [Indices(n) -> Values]]} : n \in 0 .. MaxRows}

(* What output_chunk holds when transform() is called: no ChunkInfo, a      *)
(* ChunkInfo of another type, or the ChunkInfoWithChunks of an earlier call *)
(* whose chunks came back through ResizeByHashTransform::work's swap.      *)
StaleChunk == [num_rows |-> 1, columns |-> PushBack(EmptyVector, PushBack(EmptyVector, 0))]
OutputChunksBefore(n) ==
    {NoEnvelope, [info |-> "other", chunks |-> EmptyVector],
     [info |-> "chunks", chunks |-> [i \in Indices(n + 1) |-> StaleChunk]]}

(* After SplittingByHashTransform's constructor returned, lines 16-38. *)
SplitInit ==
    /\ num_outputs \in MinOutputs .. MaxBuckets
    /\ header_columns \in 1 .. MaxColumns
    /\ key_columns \in Vectors(1 .. MaxColumns, Indices(header_columns))
    /\ hash = EmptyVector
    /\ selector = EmptyVector
    /\ split_input_chunk \in SplitChunks(header_columns)
    /\ split_output_chunk \in OutputChunksBefore(num_outputs)
    /\ pc = "transform"
    /\ ResizeIdle

(* ISimpleTransform calls transform(input_chunk, output_chunk). *)
Transform ==
    /\ pc = "transform"
    /\ \E r \in {transform(split_input_chunk, split_output_chunk, key_columns, num_outputs)} :
           /\ split_output_chunk' = r.output_chunk
           /\ hash' = IF r.threw THEN hash ELSE r.hash
           /\ selector' = IF r.threw THEN selector ELSE r.selector
           /\ pc' = IF r.threw THEN "failed" ELSE "transformed"
    /\ UNCHANGED <<num_outputs, portVars, resizeVars, status, historyVars, produced,
                   header_columns, key_columns, split_input_chunk>>

SplitNext == Transform

SplitSpec == SplitInit /\ [][SplitNext]_vars

----------------------------------------------------------------------------
(* Properties of the partition engine. *)

RECURSIVE SumOfRows(_, _)
SumOfRows(chunks, i) ==
    IF i >= Size(chunks) THEN 0 ELSE chunks[i].num_rows + SumOfRows(chunks, i + 1)

(* The number of rows before `row` that go to the bucket of `row`. *)
Rank(sel, row) == Cardinality({r \in DOMAIN sel : r < row /\ sel[r] = sel[row]})

(* Rows r1 and r2 of the chunk agree on every key column. *)
SameKey(chunk, keys, r1, r2) ==
    \A k \in DOMAIN keys : chunk.columns[keys[k]][r1] = chunk.columns[keys[k]][r2]

(* C5. Row conservation: transform() produces num_outputs sub-batches whose *)
(* row counts sum to the row count of the input, and every input row is in *)
(* the sub-batch its selector names, with all its column values.           *)
RowConservation ==
    pc = "transformed" =>
        LET res == split_output_chunk.chunks
            src == split_input_chunk
        IN  /\ Size(res) = num_outputs
            /\ SumOfRows(res, 0) = src.num_rows
            /\ \A row \in Indices(src.num_rows) :
                   /\ selector[row] \in Indices(num_outputs)
                   /\ Rank(selector, row) < res[selector[row]].num_rows
                   /\ Size(res[selector[row]].columns) = Size(src.columns)
                   /\ \A c \in DOMAIN src.columns :
                          res[selector[row]].columns[c][Rank(selector, row)]
                              = src.columns[c][row]

(* C5 happens: a chunk of several rows was split into more than one non-empty *)
(* sub-batch.                                                              *)
SplitIntoSeveral ==
    /\ pc = "transformed"
    /\ split_input_chunk.num_rows >= 2
    /\ \E r1, r2 \in DOMAIN selector : selector[r1] # selector[r2]

(* C6. Key co-location: two rows of one chunk with the same values in every *)
(* key column get the same hash and the same bucket, whatever the other    *)
(* columns hold.                                                           *)
KeyCoLocation ==
    pc = "transformed" =>
        \A r1, r2 \in Indices(split_input_chunk.num_rows) :
            SameKey(split_input_chunk, key_columns, r1, r2)
                => hash[r1] = hash[r2] /\ selector[r1] = selector[r2]

(* C6 happens: two rows agree on the key and differ in another column. *)
SameKeyOtherValues ==
    /\ pc = "transformed"
    /\ \E r1, r2 \in Indices(split_input_chunk.num_rows) :
          /\ r1 # r2
          /\ SameKey(split_input_chunk, key_columns, r1, r2)
          /\ \E c \in DOMAIN split_input_chunk.columns :
                split_input_chunk.columns[c][r1] # split_input_chunk.columns[c][r2]

(* C8. Stability: every sub-batch has the columns of the input, all of the  *)
(* length of its row count, and its k-th row is the k-th of the input rows *)
(* sent to it, so the rows keep their relative order.                      *)
Stability ==
    pc = "transformed" =>
        LET res == split_output_chunk.chunks
            src == split_input_chunk
        IN  \A i \in DOMAIN res :
               /\ Size(res[i].columns) = Size(src.columns)
               /\ \A c \in DOMAIN res[i].columns : Size(res[i].columns[c]) = res[i].num_rows
               /\ \A k \in Indices(res[i].num_rows) :
                      \E row \in DOMAIN selector :
                          /\ selector[row] = i
                          /\ Rank(selector, row) = k
                          /\ \A c \in DOMAIN res[i].columns :
                                 res[i].columns[c][k] = src.columns[c][row]

(* C8 happens: a sub-batch holds two rows that differ, so their order shows. *)
SubBatchOfTwoRows ==
    /\ pc = "transformed"
    /\ \E r1, r2 \in DOMAIN selector :
          /\ r1 < r2
          /\ selector[r1] = selector[r2]
          /\ split_input_chunk.columns[0][r1] # split_input_chunk.columns[0][r2]
          /\ split_output_chunk.chunks[selector[r1]].num_rows = 2

----------------------------------------------------------------------------
(* fillSelector on a hash buffer. *)

(* 32-bit and wider values as limbs <<carry, hi, lo>>, to state the ranges. *)
Wide(h) == <<0, h[1], h[2]>>
Narrow(w) == <<w[2], w[3]>>
WideLess(a, b) ==
    \/ a[1] < b[1]
    \/ a[1] = b[1] /\ a[2] < b[2]
    \/ a[1] = b[1] /\ a[2] = b[2] /\ a[3] < b[3]
WideLeq(a, b) == a = b \/ WideLess(a, b)
WideAdd(a, b) ==
    LET lo == a[3] + b[3]
        hi == a[2] + b[2] + lo \div Word
    IN  <<a[1] + b[1] + hi \div Word, hi % Word, lo % Word>>
WideOne == <<0, 0, 1>>
WideMax == <<0, Word - 1, Word - 1>>

(* floor(i * 2^32 / n) and ceil(i * 2^32 / n) by long division, 0 <= i <= n. *)
FloorBoundary(n, i) ==
    LET r2 == i % n
        r1 == (r2 * Word) % n
    IN  <<i \div n, (r2 * Word) \div n, (r1 * Word) \div n>>
BoundaryExact(n, i) == (((i % n) * Word) % n * Word) % n = 0
Boundary(n, i) ==
    IF BoundaryExact(n, i) THEN FloorBoundary(n, i) ELSE WideAdd(FloorBoundary(n, i), WideOne)

WideDec(a) ==
    IF a[3] > 0 THEN <<a[1], a[2], a[3] - 1>>
    ELSE IF a[2] > 0 THEN <<a[1], a[2] - 1, Word - 1>>
    ELSE <<a[1] - 1, Word - 1, Word - 1>>

(* Hash values at and next to every boundary of the n ranges, and two more. *)
HashSamples(n) ==
    LET at == {Boundary(n, i) : i \in 0 .. n} \cup {FloorBoundary(n, i) : i \in 0 .. n}
        near == at \cup {WideAdd(x, WideOne) : x \in at}
                   \cup {WideDec(x) : x \in {y \in at : y # <<0, 0, 0>>}}
    IN  {Narrow(w) : w \in {x \in near : WideLeq(x, WideMax)}}
        \cup {<<12345, 54321>>, <<54321, 12345>>}

SelectorInit ==
    /\ num_outputs \in MinOutputs .. MaxBuckets
    /\ hash \in [Indices(SampleRows) -> HashSamples(num_outputs)]
    /\ selector = EmptyVector
    /\ header_columns = 0
    /\ key_columns = EmptyVector
    /\ split_input_chunk = EmptySplitChunk
    /\ split_output_chunk = NoEnvelope
    /\ pc = "fill"
    /\ ResizeIdle

FillSelector ==
    /\ pc = "fill"
    /\ selector' = fillSelector(hash, num_outputs)
    /\ pc' = "filled"
    /\ UNCHANGED <<num_outputs, portVars, resizeVars, status, historyVars, produced,
                   header_columns, key_columns, hash, split_input_chunk, split_output_chunk>>

SelectorNext == FillSelector

SelectorSpec == SelectorInit /\ [][SelectorNext]_vars

----------------------------------------------------------------------------
(* The constructors on arbitrary arguments. *)

CtorInit ==
    /\ num_outputs \in 0 .. MaxBuckets
    /\ header_columns \in 0 .. MaxColumns
    /\ key_columns \in Vectors(0 .. MaxColumns, 0 .. MaxColumns)
    /\ hash = EmptyVector
    /\ selector = EmptyVector
    /\ split_input_chunk = EmptySplitChunk
    /\ split_output_chunk = NoEnvelope
    /\ pc = "construct"
    /\ ResizeIdle

NewSplittingByHashTransform ==
    /\ pc = "construct"
    /\ status' = ConstructSplitting(header_columns, num_outputs, key_columns)
    /\ pc' = IF status' = "constructed" THEN "splitting" ELSE "splitting_failed"
    /\ UNCHANGED <<num_outputs, portVars, resizeVars, historyVars, produced, splitVars>>

NewResizeByHashTransform ==
    /\ pc = "construct"
    /\ status' = ConstructResize(num_outputs)
    /\ pc' = IF status' = "constructed" THEN "resize" ELSE "resize_failed"
    /\ UNCHANGED <<num_outputs, portVars, resizeVars, historyVars, produced, splitVars>>

CtorNext == NewSplittingByHashTransform \/ NewResizeByHashTransform

CtorSpec == CtorInit /\ [][CtorNext]_vars

----------------------------------------------------------------------------
(* Properties of fillSelector and of the constructors. *)

(* C7. Uniform range mapping: fillSelector sends the hash h to              *)
(* floor(h * num_outputs / 2^32): the bucket is in [0, num_outputs), it is *)
(* the one whose range [ceil(i * 2^32 / n), ceil((i + 1) * 2^32 / n))      *)
(* holds h, it does not decrease when h grows, 0 goes to bucket 0 and      *)
(* 2^32 - 1 to the last bucket, the least hash of bucket i is              *)
(* ceil(i * 2^32 / n), and the sizes of the ranges differ by at most one.  *)
UniformRangeMapping ==
    pc = "filled" =>
        /\ \A row \in DOMAIN hash :
               /\ selector[row] \in Indices(num_outputs)
               /\ WideLeq(Boundary(num_outputs, selector[row]), Wide(hash[row]))
               /\ WideLess(Wide(hash[row]), Boundary(num_outputs, selector[row] + 1))
               /\ hash[row] = <<0, 0>> => selector[row] = 0
               /\ Wide(hash[row]) = WideMax => selector[row] = num_outputs - 1
               /\ \A i \in Indices(num_outputs) :
                      Wide(hash[row]) = Boundary(num_outputs, i) => selector[row] = i
        /\ \A r1, r2 \in DOMAIN hash :
               WideLeq(Wide(hash[r1]), Wide(hash[r2])) => selector[r1] <= selector[r2]
        /\ \A i \in Indices(num_outputs) :
               LET width == FloorBoundary(num_outputs, 1)
                   least == WideAdd(Boundary(num_outputs, i), width)
               IN  Boundary(num_outputs, i + 1) \in {least, WideAdd(least, WideOne)}

(* C7 happens: with three buckets, the hash ceil(2^32 / 3) went to bucket 1 *)
(* and the hash before it, floor(2^32 / 3), to bucket 0.                   *)
BothSidesOfBoundary ==
    /\ pc = "filled"
    /\ num_outputs = 3
    /\ \E r1, r2 \in DOMAIN hash :
          /\ Wide(hash[r1]) = FloorBoundary(3, 1) /\ selector[r1] = 0
          /\ Wide(hash[r2]) = Boundary(3, 1) /\ selector[r2] = 1
          /\ hash[r1] # hash[r2]

(* C10. Construction validation: SplittingByHashTransform's constructor     *)
(* throws exactly when num_outputs < 2, or there is no key column, or a    *)
(* key column is not below the number of columns of the header;            *)
(* ResizeByHashTransform's constructor throws exactly when num_outputs < 2. *)
ConstructionValidation ==
    /\ pc \in {"splitting", "splitting_failed"} =>
          (pc = "splitting_failed")
             = (\/ num_outputs < 2
                \/ Size(key_columns) = 0
                \/ \E k \in DOMAIN key_columns : key_columns[k] >= header_columns)
    /\ pc \in {"resize", "resize_failed"} =>
          (pc = "resize_failed") = (num_outputs < 2)

(* C10 happens: the only fault of the arguments is a key column equal to the *)
(* number of columns of the header.                                        *)
RefusedKeyColumn ==
    /\ pc = "splitting_failed"
    /\ num_outputs >= 2
    /\ Size(key_columns) > 0
    /\ \A k \in DOMAIN key_columns : key_columns[k] <= header_columns
    /\ status = "Invalid column number"

----------------------------------------------------------------------------
(* The run of Spec with an upstream that sends at most MaxCallEnvelopes     *)
(* envelopes: the properties of single calls of prepare() and work() are   *)
(* checked under it.                                                       *)
CallNext ==
    \/ Prepare
    \/ Work
    \/ (produced < MaxCallEnvelopes /\ InputProvide)
    \/ (produced < MaxCallEnvelopes /\ InputProvideForeign)
    \/ InputFinish
    \/ \E i \in Indices(num_outputs) : OutputAccept(i)
    \/ \E i \in Indices(num_outputs) : OutputStall(i)
    \/ \E i \in Indices(num_outputs) : OutputFinish(i)

CallSpec == Init /\ [][CallNext]_vars

AllOutputsFinished == \A i \in DOMAIN outputs : OutputIsFinished(outputs, i)

(* C11. Cancellation: when every output is finished, in Consuming or in     *)
(* Generating with sub-batches still waiting, the next prepare() closes    *)
(* the input and returns Finished, pushes nothing and pulls nothing.       *)
Cancellation ==
    [][(Prepare /\ AllOutputsFinished) =>
          /\ status' = "Finished"
          /\ input'.closed
          /\ delivered' = delivered
          /\ pulled' = pulled
          /\ input_chunk' = input_chunk]_vars

(* C11 happens: the stage was cancelled while a sub-batch with rows waited. *)
CancelledWhilePending ==
    /\ status = "Finished"
    /\ input.closed
    /\ ~input.finished
    /\ \E i \in DOMAIN output_chunks : IsPending(i)

(* Some output that is not finished cannot accept a push; none of them can. *)
SomeOutputBlocked ==
    \E i \in DOMAIN outputs : ~OutputIsFinished(outputs, i) /\ ~OutputCanPush(outputs, i)
EveryOutputBlocked ==
    \A i \in DOMAIN outputs : ~OutputIsFinished(outputs, i) => ~OutputCanPush(outputs, i)

(* What the input rules of prepareConsume return, lines 157-173. *)
InputRulesStatus ==
    IF InputIsFinished(input) THEN "Finished"
    ELSE IF ~InputHasData(input) THEN "NeedData"
    ELSE "Ready"

(* C13 as stated. Consuming backpressure rule: in Consuming with an output  *)
(* that is not finished, prepare() returns PortFull when all outputs that  *)
(* are not finished cannot accept a push; when at least one of them can,   *)
(* it does not return PortFull but goes on to the input rules.             *)
ConsumingBackpressureWhenAllBlocked ==
    [][(Prepare /\ ~is_generating_phase /\ ~AllOutputsFinished) =>
          /\ EveryOutputBlocked => status' = "PortFull"
          /\ ~EveryOutputBlocked => status' = InputRulesStatus]_vars

(* C13 amended. In Consuming with an output that is not finished, prepare() *)
(* returns PortFull and changes nothing when at least one output that is   *)
(* not finished cannot accept a push; only when every such output can      *)
(* accept a push does it go on to the input rules.                         *)
ConsumingBackpressure ==
    [][(Prepare /\ ~is_generating_phase /\ ~AllOutputsFinished) =>
          /\ SomeOutputBlocked =>
                /\ status' = "PortFull"
                /\ UNCHANGED <<portVars, resizeVars, historyVars>>
          /\ ~SomeOutputBlocked => status' = InputRulesStatus]_vars

(* C13 happens: PortFull before any envelope was pulled, while one output   *)
(* can accept a push and another cannot.                                   *)
BlockedByOneOutput ==
    /\ status = "PortFull"
    /\ pulled = 0
    /\ \E i \in DOMAIN outputs : OutputCanPush(outputs, i)
    /\ SomeOutputBlocked

(* C14. An envelope is pulled, and Ready returned, only by a prepare() call *)
(* that finds every output finished or able to accept a push, some output  *)
(* not finished, and the input not exhausted and holding data; one         *)
(* envelope is pulled per Ready and the state becomes Generating.          *)
PullConditions ==
    [][/\ (pulled' # pulled \/ (pc = "prepare" /\ input_chunk' # input_chunk)) =>
              /\ ~SomeOutputBlocked
              /\ ~AllOutputsFinished
              /\ ~InputIsFinished(input)
              /\ InputHasData(input)
              /\ pulled' = pulled + 1
              /\ input_chunk' = input.data
              /\ ~InputHasData(input')
              /\ status' = "Ready"
              /\ is_generating_phase'
       /\ (pc = "prepare" /\ (pc' = "work" \/ (status' = "Ready" /\ status # "Ready"))) =>
              /\ pulled' = pulled + 1
              /\ status' = "Ready"
              /\ pc' = "work"]_vars

(* C14 happens: an envelope was pulled while one output is finished and    *)
(* another can accept a push.                                              *)
PulledWithFinishedOutput ==
    /\ pc = "work"
    /\ status = "Ready"
    /\ pulled > 0
    /\ input_chunk.info = "chunks"
    /\ \E i \in DOMAIN outputs : OutputIsFinished(outputs, i)
    /\ \E i \in DOMAIN outputs : OutputCanPush(outputs, i)

(* When the call returns, every sub-batch of the current envelope is empty, *)
(* or its output was finished, or it has been pushed.                      *)
DrainedAfterCall ==
    \A i \in DOMAIN unpacked :
        \/ ~hasRows(unpacked[i])
        \/ OutputIsFinished(outputs, i)
        \/ \E k \in 1 .. Len(delivered'[i]) : delivered'[i][k] = unpacked[i]

NothingToDeliver ==
    \A i \in DOMAIN outputs : ~hasRows(output_chunks[i]) \/ OutputIsFinished(outputs, i)

(* C16. An envelope whose sub-batches are all empty or meant for finished   *)
(* outputs never gets PortFull from the Generating rules: prepare() pushes *)
(* nothing, returns to Consuming and returns what the Consuming rules      *)
(* return, in the same call.                                               *)
SkippableEnvelopeDoesNotStall ==
    [][(Prepare /\ is_generating_phase /\ NothingToDeliver) =>
          /\ delivered' = delivered
          /\ output_chunks' = output_chunks
          /\ Stage' = prepareConsume([Stage EXCEPT !.is_generating_phase = FALSE])]_vars

(* C16 happens: an envelope went by without a push and the stage asks for   *)
(* the next one, a sub-batch with rows left behind for a finished output.  *)
SkippedForFinishedOutput ==
    /\ status = "NeedData"
    /\ pulled > 0
    /\ \A i \in DOMAIN delivered : delivered[i] = <<>>
    /\ \E i \in DOMAIN outputs : ~hasRows(unpacked[i])
    /\ \E i \in DOMAIN outputs : IsPending(i) /\ OutputIsFinished(outputs, i)

(* C17. Output Readiness Table indexing: once work() has unpacked an        *)
(* envelope the table has one entry per output, and between the calls of   *)
(* prepare() entry i is true exactly when sub-batch i of the current       *)
(* envelope has been pushed to output i (the entry read and set for        *)
(* output i is entry i); work() leaves every entry false.                  *)
ReadinessTableIndexing ==
    (pc = "prepare" /\ pulled > 0) =>
        /\ DOMAIN was_output_processed = Indices(num_outputs)
        /\ \A i \in Indices(num_outputs) : was_output_processed[i] <=> WasDelivered(i)

(* C18. A push happens only in a prepare() call in Generating, only to an   *)
(* output that is then not finished and can accept a push, and only of the *)
(* sub-batch that waits for that output and has rows; nothing without rows, *)
(* no envelope, is ever pushed.                                            *)
PushConditions ==
    /\ [][\A i \in DOMAIN delivered :
             delivered'[i] # delivered[i] =>
                 /\ pc = "prepare"
                 /\ is_generating_phase
                 /\ ~OutputIsFinished(outputs, i)
                 /\ OutputCanPush(outputs, i)
                 /\ hasRows(output_chunks[i])
                 /\ delivered'[i] = Append(delivered[i], output_chunks[i])]_vars
    /\ [](\A i \in DOMAIN delivered :
             \A k \in 1 .. Len(delivered[i]) :
                 /\ hasRows(delivered[i][k])
                 /\ delivered[i][k] # input_chunk)

(* C18 happens: one output holds the sub-batch just pushed while another,   *)
(* which cannot accept, still waits for its own.                           *)
PushedToAcceptingOutputOnly ==
    /\ pc = "prepare"
    /\ is_generating_phase
    /\ status = "PortFull"
    /\ \E i \in DOMAIN outputs : outputs[i] = "busy" /\ WasDelivered(i)
    /\ \E j \in DOMAIN outputs : outputs[j] = "busy" /\ IsPending(j)

(* The loop of prepareGenerate on the current state, lines 179-206. *)
LoopResult(oob) ==
    GenerateLoop([s |-> Stage, has_full_ports |-> FALSE, all_outputs_processed |-> TRUE], 0, oob)

(* C19. Finished comes from the Consuming rules only: when prepare()        *)
(* returns Finished, NeedData or Ready, the call is the Consuming rules    *)
(* run with is_generating_phase false (the loop of prepareGenerate leaves  *)
(* has_full_ports false only with all_outputs_processed true, and nothing  *)
(* was pushed); on Finished every output is finished and the input is      *)
(* closed or exhausted.                                                    *)
FinishedOnlyFromConsuming ==
    [][Prepare =>
          /\ status' \in {"Finished", "NeedData", "Ready"} =>
                /\ Stage' = prepareConsume([Stage EXCEPT !.is_generating_phase = FALSE])
                /\ delivered' = delivered
                /\ status' # "Ready" => ~is_generating_phase'
          /\ is_generating_phase =>
                \A oob \in BOOLEAN : \A g \in {LoopResult(oob)} :
                    ~g.has_full_ports => g.all_outputs_processed
          /\ status' = "Finished" =>
                /\ \A i \in DOMAIN outputs : OutputIsFinished(outputs', i)
                /\ InputIsFinished(input')
          /\ status' \in {"Finished", "NeedData", "Ready", "PortFull"}]_vars

(* C19 happens: a prepare() call in Generating returned Finished: the       *)
(* envelope had no rows and the input is exhausted.                        *)
FinishedThroughGenerating ==
    /\ status = "Finished"
    /\ pulled > 0
    /\ input.finished
    /\ ~input.closed
    /\ \A i \in DOMAIN delivered : delivered[i] = <<>>
    /\ \A i \in DOMAIN unpacked : ~hasRows(unpacked[i])

(* C20. Finished is absorbing: once prepare() has returned Finished, every  *)
(* later call returns Finished again, pushes nothing and pulls nothing,    *)
(* and the outputs stay finished.                                          *)
FinishedIsAbsorbing ==
    /\ [][(Prepare /\ status = "Finished") =>
              /\ status' = "Finished"
              /\ delivered' = delivered
              /\ pulled' = pulled
              /\ input_chunk' = input_chunk
              /\ outputs' = outputs
              /\ ~is_generating_phase']_vars
    /\ [][status = "Finished" => status' = "Finished" /\ pc' = "prepare"]_vars
    /\ [](finished_again => status = "Finished")

(* C20 happens: prepare() returned Finished on an exhausted input that it   *)
(* had not closed, and the call after it returned Finished again.          *)
FinishedTwice ==
    /\ finished_again
    /\ status = "Finished"
    /\ input.finished
    /\ input.closed
    /\ pulled > 0

----------------------------------------------------------------------------
(* SplittingByHashTransform feeding ResizeByHashTransform: both constructed *)
(* with the same num_outputs, the output of the first is the input of the  *)
(* second.                                                                 *)

(* The ChunkInfoWithChunks as ResizeByHashTransform::work left it after the *)
(* swap of line 225, seen by splitChunk: only the sizes are kept.          *)
AttachmentOf(envelope) ==
    [info |-> envelope.info,
     chunks |-> [i \in DOMAIN envelope.chunks |->
                   [num_rows |-> envelope.chunks[i].rows, columns |-> EmptyVector]]]

(* The envelope transform() emitted, seen by ResizeByHashTransform. *)
EnvelopeOf(e, out) ==
    [info |-> out.info,
     chunks |-> [i \in DOMAIN out.chunks |->
                   [env |-> e, idx |-> i, rows |-> out.chunks[i].num_rows]]]

(* Both stages after their constructors, lines 16-46: one key column. *)
WiredInit ==
    /\ num_outputs \in MinOutputs .. MaxOutputs
    /\ outputs = [i \in Indices(num_outputs) |-> "busy"]
    /\ input = InitInput
    /\ is_generating_phase = FALSE
    /\ input_chunk = NoEnvelope
    /\ output_chunks = EmptyVector
    /\ was_output_processed = EmptyVector
    /\ status = "None"
    /\ pc = "prepare"
    /\ delivered = [i \in Indices(num_outputs) |-> <<>>]
    /\ unpacked = EmptyVector
    /\ pulled = 0
    /\ finished_again = FALSE
    /\ produced = 0
    /\ header_columns = 1
    /\ key_columns = PushBack(EmptyVector, 0)
    /\ hash = EmptyVector
    /\ selector = EmptyVector
    /\ split_input_chunk = EmptySplitChunk
    /\ split_output_chunk = NoEnvelope

(* The chunks the splitting stage is given here: header_columns columns and *)
(* at most MaxWiredRows rows.                                              *)
WiredChunks(ncols) == {chunk \in SplitChunks(ncols) : chunk.num_rows <= MaxWiredRows}

(* SplittingByHashTransform::transform on the next chunk, lines 109-121;    *)
(* its output_chunk has no ChunkInfo yet, or the ChunkInfoWithChunks that  *)
(* ResizeByHashTransform holds since its last work(). The envelope goes to *)
(* the input port of ResizeByHashTransform.                                *)
TransformAndPush ==
    /\ pc # "failed"
    /\ input.needed /\ ~input.has_data /\ ~input.finished /\ ~input.closed
    /\ produced < MaxWiredEnvelopes
    /\ \E chunk \in WiredChunks(header_columns) :
         \E out \in {NoEnvelope, AttachmentOf(input_chunk)} :
           \E r \in {transform(chunk, out, key_columns, num_outputs)} :
               /\ ~r.threw
               /\ split_input_chunk' = chunk
               /\ split_output_chunk' = r.output_chunk
               /\ hash' = r.hash
               /\ selector' = r.selector
               /\ input' = [input EXCEPT !.has_data = TRUE,
                                         !.data = EnvelopeOf(produced + 1, r.output_chunk)]
    /\ produced' = produced + 1
    /\ UNCHANGED <<num_outputs, outputs, resizeVars, status, pc, historyVars,
                   header_columns, key_columns>>

WiredNext ==
    \/ Prepare
    \/ Work
    \/ TransformAndPush
    \/ InputFinish
    \/ \E i \in Indices(num_outputs) : OutputAccept(i)
    \/ \E i \in Indices(num_outputs) : OutputFinish(i)

WiredSpec == WiredInit /\ [][WiredNext]_vars

(* C12. Correct wiring: when both stages have the same number of outputs    *)
(* and the fan-out stage only consumes what the splitting stage emitted,   *)
(* every envelope carries exactly num_outputs sub-batches and work() never *)
(* throws, however many envelopes pass and whether or not the attachment   *)
(* is the one that came back from the swap.                                *)
CorrectWiring ==
    /\ pc # "failed"
    /\ input.has_data => Unpackable(input.data, num_outputs)
    /\ pc = "work" => Unpackable(input_chunk, num_outputs)
    /\ pulled > 0 /\ pc = "prepare" => Size(output_chunks) = num_outputs

(* C12 happens: work() unpacked a second envelope, and the attachment it    *)
(* swapped with holds a sub-batch of the first that was never pushed.      *)
SecondEnvelopeUnpacked ==
    /\ pulled > 1
    /\ pc = "prepare"
    /\ is_generating_phase
    /\ Size(input_chunk.chunks) = num_outputs
    /\ \E i \in DOMAIN input_chunk.chunks : hasRows(input_chunk.chunks[i])

====
